---- MODULE Spec2Model ----
(***************************************************************************)
(* Model of PythonZ_spread_Congr.py: a top-to-bottom script that           *)
(*   1) fixes the global data (lines 37-75),                               *)
(*   2) advances the valuation date on the German calendar (83, 89),       *)
(*   3) builds a piecewise flat-forward curve from deposit quotes (193),   *)
(*   4) builds the fixed-rate bond with a zero spread (195),               *)
(*   5) solves the z-spread for the quoted market value (200-209),         *)
(*   6) rebuilds the bond with that spread and prints analytics (210-212). *)
(*                                                                         *)
(* Dates are day numbers, day 0 = Monday 2018-01-01.  Rates, year          *)
(* fractions and discount factors are fixed-point numbers with Scale       *)
(* units per 1; money is fixed-point with Money units per currency unit.   *)
(* Every intermediate value fits a 32-bit integer.                         *)
(***************************************************************************)
EXTENDS Integers, Sequences, FiniteSets, TLC

(***************************************************************************)
(* Fixed-point arithmetic standing for the floating-point arithmetic of    *)
(* the pricing library.                                                    *)
(***************************************************************************)
Scale == 1000 * 1000
Money == 100 * 100

Abs(x) == IF x < 0 THEN 0 - x ELSE x
Sign(x) == IF x < 0 THEN 0 - 1 ELSE 1

\* a * b / Scale for a, b >= 0, by 3-digit limbs, rounded to the nearest unit
MulPos(a, b) ==
    LET a1 == a \div 1000
        a0 == a % 1000
        b1 == b \div 1000
        b0 == b % 1000
    IN  a1 * b1
        + ((a1 * b0 + a0 * b1 + ((a0 * b0 + 500) \div 1000) + 500) \div 1000)

Mul(a, b) == Sign(a) * Sign(b) * MulPos(Abs(a), Abs(b))

\* a * Scale / b for a >= 0, b > 0, by long division two digits at a time,
\* rounded to the nearest unit
DivPos(a, b) ==
    LET q0 == a \div b
        r0 == a % b
        q1 == (r0 * 100) \div b
        r1 == (r0 * 100) % b
        q2 == (r1 * 100) \div b
        r2 == (r1 * 100) % b
        q3 == (r2 * 100) \div b
        r3 == (r2 * 100) % b
    IN  q0 * Scale + q1 * 10000 + q2 * 100 + q3
        + (IF 2 * r3 >= b THEN 1 ELSE 0)

Div(a, b) == Sign(a) * Sign(b) * DivPos(Abs(a), Abs(b))

\* a / n for n > 0, rounded to the nearest integer
Quot(a, n) == Sign(a) * ((2 * Abs(a) + n) \div (2 * n))

ExpTerms == 12
LnTerms == 8

RECURSIVE ExpSum(_, _, _)
ExpSum(x, term, k) ==
    IF k > ExpTerms THEN 0
    ELSE LET next == Quot(Mul(term, x), k) IN next + ExpSum(x, next, k + 1)

\* e^x, |x| <= 1
Exp(x) == Scale + ExpSum(x, Scale, 1)

RECURSIVE LnSum(_, _, _)
LnSum(w2, term, k) ==
    IF k >= LnTerms THEN 0
    ELSE Quot(term, 2 * k + 1) + LnSum(w2, Mul(term, w2), k + 1)

\* ln y, 1/2 <= y <= 2, from 2 * atanh((y - 1) / (y + 1))
Ln(y) ==
    LET w == Div(y - Scale, y + Scale) IN 2 * LnSum(Mul(w, w), w, 0)

(***************************************************************************)
(* Dates and the calendar (Date, Germany(), Calendar.advance).             *)
(***************************************************************************)
EpochYear == 2018

IsLeap(y) == y % 4 = 0

\* day number of 1 January of year y (valid for 2015..2099; negative before
\* the epoch)
YearStart(y) == 365 * (y - EpochYear) + ((y - (EpochYear - 1)) \div 4)

Mar1(y) == YearStart(y) + 59 + (IF IsLeap(y) THEN 1 ELSE 0)

YearOf(d) == CHOOSE y \in (EpochYear - 3) .. (EpochYear + 60) :
                 YearStart(y) <= d /\ d < YearStart(y + 1)

\* d + n years: same day and month n years later (29 February is not modelled)
AddYears(d, n) ==
    LET y == YearOf(d)
    IN  IF d >= Mar1(y) THEN Mar1(y + n) + (d - Mar1(y))
        ELSE YearStart(y + n) + (d - YearStart(y))

\* day number of day `day` of month 4..8 of year y
DayOf(y, m, day) ==
    Mar1(y) + (CASE m = 4 -> 31 [] m = 5 -> 61 [] m = 6 -> 92
                 [] m = 7 -> 122 [] m = 8 -> 153) + (day - 1)

\* first days of May..August of the year of d: the month boundaries a
\* business-day adjustment of a modelled date can cross
MonthStarts(d) == { DayOf(YearOf(d), m, 1) : m \in 5 .. 8 }

IsWeekend(d) == d % 7 \in {5, 6}

\* Good Friday and Easter Monday 2019: the only Easter holidays that a
\* modelled date (April and July of 2018..2069, see ValuationInputs) meets
EasterHolidays == { DayOf(2019, 4, 19), DayOf(2019, 4, 22) }

IsLabourDay(d) == d = DayOf(YearOf(d), 5, 1)

\* Germany(): Frankfurt Stock Exchange holidays that fall in March..November
IsHoliday(d) == IsWeekend(d) \/ d \in EasterHolidays \/ IsLabourDay(d)

IsBusinessDay(d) == ~IsHoliday(d)

RECURSIVE Following(_)
Following(d) == IF IsHoliday(d) THEN Following(d + 1) ELSE d

RECURSIVE Preceding(_)
Preceding(d) == IF IsHoliday(d) THEN Preceding(d - 1) ELSE d

ModifiedFollowing(d) ==
    LET f == Following(d)
    IN  IF \E b \in MonthStarts(d) : d < b /\ b <= f THEN Preceding(d) ELSE f

\* Calendar.advance(d, n, Days): the n-th business day after d; n = 0 rolls
\* d to the first business day on or after it
RECURSIVE AdvanceDays(_, _)
AdvanceDays(d, n) ==
    IF n = 0 THEN Following(d) ELSE AdvanceDays(Following(d + 1), n - 1)

\* Calendar.advance(d, n, Years) with the default Following convention
AdvanceYears(d, n) == Following(AddYears(d, n))

(***************************************************************************)
(* 1) Global data (lines 37-75).                                           *)
(***************************************************************************)
\* coupon = 0.047 (line 52)
coupon == 47000

\* zcQuotes (lines 56-75): rate in units of 1/Scale, tenor
zcQuotes ==
    << [rate |-> 0 - 3680, n |-> 1,  unit |-> "Days"],
       [rate |-> 0 - 4313, n |-> 1,  unit |-> "Years"],
       [rate |-> 0 - 4600, n |-> 2,  unit |-> "Years"],
       [rate |-> 0 - 4350, n |-> 3,  unit |-> "Years"],
       [rate |-> 0 - 3800, n |-> 4,  unit |-> "Years"],
       [rate |-> 0 - 3113, n |-> 5,  unit |-> "Years"],
       [rate |-> 0 - 2350, n |-> 6,  unit |-> "Years"],
       [rate |-> 0 - 1525, n |-> 7,  unit |-> "Years"],
       [rate |-> 0 - 663,  n |-> 8,  unit |-> "Years"],
       [rate |-> 188,      n |-> 9,  unit |-> "Years"],
       [rate |-> 1000,     n |-> 10, unit |-> "Years"],
       [rate |-> 1710,     n |-> 11, unit |-> "Years"],
       [rate |-> 2450,     n |-> 12, unit |-> "Years"],
       [rate |-> 4175,     n |-> 15, unit |-> "Years"],
       [rate |-> 5863,     n |-> 20, unit |-> "Years"],
       [rate |-> 6475,     n |-> 25, unit |-> "Years"],
       [rate |-> 6625,     n |-> 30, unit |-> "Years"],
       [rate |-> 6531,     n |-> 40, unit |-> "Years"],
       [rate |-> 6242,     n |-> 50, unit |-> "Years"] >>

(***************************************************************************)
(* day_counter = ActualActual(ActualActual.Bond) (line 43).                *)
(***************************************************************************)
\* year fraction d1 -> d2 (d1 <= d2) within the reference period r1 -> r2
\* that contains it, a period of `months` months
IsmaFraction(d1, d2, r1, r2, months) ==
    Quot(Quot(months * Scale, 12) * (d2 - d1), r2 - r1)

\* yearFraction(d1, d2) with no reference period: the period d1 -> d2 is
\* its own reference period, its length rounded to whole months; a period
\* shorter than half a month is measured against the year that starts at d1
YearFraction(d1, d2) ==
    LET months == (24 * (d2 - d1) + 365) \div 730
    IN  IF d1 = d2 THEN 0
        ELSE IF months = 0 THEN IsmaFraction(d1, d2, d1, AddYears(d1, 1), 12)
        ELSE Quot(months * Scale, 12)

(***************************************************************************)
(* 3) getTermStructure (lines 95-110).                                     *)
(***************************************************************************)
\* maturity of the deposit quoted for tenor q, starting on the valuation
\* date (fixing_days = 0, line 97); endOfMonth = True (line 105) gives the
\* same date as ModifiedFollowing for every modelled date
DepositMaturity(v, q) ==
    IF q.unit = "Days" THEN AdvanceDays(v, q.n)
    ELSE ModifiedFollowing(AddYears(v, q.n))

\* DepositCompound with the negative quotes floored at zero
DepositCompoundFloored(v, q) ==
    Scale + Mul(IF q.rate < 0 THEN 0 ELSE q.rate,
                YearFraction(v, DepositMaturity(v, q)))

\* DepositRateHelper: 1 / discount(maturity) = 1 + rate * yearFraction
DepositCompound(v, q) ==
    Scale + Mul(q.rate, YearFraction(v, DepositMaturity(v, q)))

\* PiecewiseFlatForward: node 1 is the valuation date with discount 1, node
\* i + 1 reprices quote i exactly; lnDF is the log of the discount factor
getTermStructure(v) ==
    << [date |-> v, t |-> 0, lnDF |-> 0] >> \o
    [ i \in 1 .. Len(zcQuotes) |->
        [ date |-> DepositMaturity(v, zcQuotes[i]),
          t    |-> YearFraction(v, DepositMaturity(v, zcQuotes[i])),
          lnDF |-> 0 - Ln(DepositCompound(v, zcQuotes[i])) ] ]

\* discount factor of node i
NodeDiscount(curve, i) == Exp(curve[i].lnDF)

\* flat forward between nodes: lnDF is linear in time
CurveLnDF(curve, t) ==
    IF t = 0 THEN 0
    ELSE LET i == CHOOSE k \in 1 .. (Len(curve) - 1) :
                      curve[k].t < t /\ t <= curve[k + 1].t
             a == curve[i]
             b == curve[i + 1]
         IN  a.lnDF + Mul(b.lnDF - a.lnDF, Div(t - a.t, b.t - a.t))

(***************************************************************************)
(* 4) getBond (lines 116-160).                                             *)
(***************************************************************************)
\* Schedule(issue, maturity, Period(Annual), calendar, Unadjusted,
\* Unadjusted, Backward, False): the anniversaries of the maturity that are
\* not before the issue date, and the issue date in front
RECURSIVE BackwardDates(_, _, _)
BackwardDates(issue, maturity, k) ==
    LET d == AddYears(maturity, 0 - k)
    IN  IF d < issue THEN << >>
        ELSE BackwardDates(issue, maturity, k + 1) \o << d >>

Schedule(issue, maturity) ==
    LET regular == BackwardDates(issue, maturity, 0)
    IN  IF regular[1] = issue THEN regular ELSE << issue >> \o regular

\* FixedRateBond(0, face, schedule, [coupon], dayCounter, convention, 100,
\* issue): coupon i accrues over schedule[i] -> schedule[i + 1] against the
\* regular period that ends with it, and is paid on the adjusted end date;
\* the redemption (100% of face) is paid with the last coupon
Coupon(face, schedule, i) ==
    LET start == schedule[i]
        end   == schedule[i + 1]
        ref   == AddYears(end, 0 - 1)
    IN  [ start  |-> start,
          end    |-> end,
          ref    |-> ref,
          date   |-> ModifiedFollowing(end),
          amount |-> Mul(Mul(face, coupon),
                         IsmaFraction(start, end, ref, end, 12)) ]

Coupons(face, schedule) ==
    [ i \in 1 .. (Len(schedule) - 1) |-> Coupon(face, schedule, i) ]

CashFlows(face, schedule) ==
    [ i \in 1 .. (Len(schedule) - 1) |->
        [ date   |-> Coupons(face, schedule)[i].date,
          amount |-> Coupons(face, schedule)[i].amount ] ]
    \o << [ date   |-> ModifiedFollowing(schedule[Len(schedule)]),
            amount |-> face ] >>

\* compounding = SimpleThenCompounded (line 44); the default compounding of
\* ZeroSpreadedTermStructure when none is passed (line 147)
compounding == "SimpleThenCompounded"
DefaultCompounding == "Continuous"

\* ZeroSpreadedTermStructure: the curve's zero rate for time t under `comp`
\* (annual frequency), plus z, converted back to a discount factor
SpreadedDiscount(curve, t, z, comp) ==
    IF t = 0 THEN Scale
    ELSE LET lnD == CurveLnDF(curve, t)
         IN  IF comp = "Continuous"
             THEN Exp(lnD - Mul(z, t))
             ELSE IF t <= Scale
             THEN LET r == Div(Exp(0 - lnD) - Scale, t)
                  IN  Div(Scale, Scale + Mul(r + z, t))
             ELSE LET r == Exp(Div(0 - lnD, t)) - Scale
                  IN  Exp(0 - Mul(t, Ln(Scale + r + z)))

RECURSIVE SumNPV(_, _, _, _, _, _, _)
SumNPV(flows, i, curve, d, z, comp, includeRefDate) ==
    IF i > Len(flows) THEN 0
    ELSE (IF flows[i].date > d \/ (includeRefDate /\ flows[i].date = d)
          THEN Mul(flows[i].amount,
                   SpreadedDiscount(curve, YearFraction(d, flows[i].date),
                                    z, comp))
          ELSE 0)
         + SumNPV(flows, i + 1, curve, d, z, comp, includeRefDate)

\* CashFlows.npv on date d: the flows that have not occurred, discounted on
\* the curve shifted by z
FlowsNPV(flows, curve, d, z, comp, includeRefDate) ==
    SumNPV(flows, 1, curve, d, z, comp, includeRefDate)

\* getBond with the issue date moved back two years instead of one
getBondTwoYearsBack(v, maturity, faceAmount, curve, z) ==
    LET issue    == AdvanceYears(v, 0 - 2)
        schedule == Schedule(issue, maturity)
    IN  [ issue_date  |-> issue,
          schedule    |-> schedule,
          notional    |-> faceAmount,
          coupons     |-> Coupons(faceAmount, schedule),
          cashflows   |-> CashFlows(faceAmount, schedule),
          curve       |-> curve,
          spread      |-> z,
          compounding |-> DefaultCompounding ]

getBond(v, maturity, faceAmount, curve, z) ==
    LET issue    == AdvanceYears(v, 0 - 1)
        schedule == Schedule(issue, maturity)
    IN  [ issue_date  |-> issue,
          schedule    |-> schedule,
          notional    |-> faceAmount,
          coupons     |-> Coupons(faceAmount, schedule),
          cashflows   |-> CashFlows(faceAmount, schedule),
          curve       |-> curve,
          spread      |-> z,
          compounding |-> DefaultCompounding ]

\* fixedRateBond.NPV(): DiscountingBondEngine on the evaluation date d; a
\* flow paid on d itself has occurred
BondNPV(bond, d) ==
    FlowsNPV(bond.cashflows, bond.curve, d, bond.spread, bond.compounding,
             FALSE)

\* fixedRateBond.accruedAmount() on the settlement date d (settlement_days
\* = 0): what the next coupon to be paid has accrued, per 100 of notional
BondAccrued(bond, d) ==
    LET pending == { i \in DOMAIN bond.coupons : bond.coupons[i].date > d }
    IN  IF pending = {} THEN 0
        ELSE LET i == CHOOSE k \in pending : \A j \in pending : k <= j
                 c == bond.coupons[i]
                 upto == IF d < c.end THEN d ELSE c.end
             IN  IF d <= c.start THEN 0
                 ELSE Mul(100 * Money,
                          Div(Mul(Mul(bond.notional, coupon),
                                  IsmaFraction(c.start, upto, c.ref, c.end, 12)),
                              bond.notional))

(***************************************************************************)
(* 5) CashFlows.zSpread (lines 200-208).                                   *)
(***************************************************************************)
\* the spreads the root search brackets, in units of 1/Scale: -ZLow .. ZMax
ZMax == 200000
ZLow == 30000
ZMin == 0 - ZLow

\* target minus the value of the flows at spread z (includeSettlementDate-
\* Flows = True, line 207)
Objective(flows, curve, d, comp, target, z) ==
    target - FlowsNPV(flows, curve, d, z, comp, TRUE)

RECURSIVE Bisect(_, _, _, _, _, _, _, _)
Bisect(flows, curve, d, comp, target, lo, hi, signLo) ==
    IF hi - lo <= 1
    THEN IF Abs(Objective(flows, curve, d, comp, target, lo))
              <= Abs(Objective(flows, curve, d, comp, target, hi))
         THEN lo ELSE hi
    ELSE LET mid == (lo + hi) \div 2
             f   == Objective(flows, curve, d, comp, target, mid)
         IN  IF f = 0 THEN mid
             ELSE IF Sign(f) = signLo
             THEN Bisect(flows, curve, d, comp, target, mid, hi, signLo)
             ELSE Bisect(flows, curve, d, comp, target, lo, mid, signLo)

\* the root search: << >> when the objective does not change sign over the
\* bracket (the library raises), else << z >>
zSpread(flows, target, curve, d, comp) ==
    LET fLo == Objective(flows, curve, d, comp, target, ZMin)
        fHi == Objective(flows, curve, d, comp, target, ZMax)
    IN  IF fLo = 0 THEN << ZMin >>
        ELSE IF fHi = 0 THEN << ZMax >>
        ELSE IF Sign(fLo) = Sign(fHi) THEN << >>
        ELSE << Bisect(flows, curve, d, comp, target, ZMin, ZMax, Sign(fLo)) >>

(***************************************************************************)
(* The run of the script.  A Python name that is not bound yet holds << >>,*)
(* a bound one holds << value >>.                                          *)
(***************************************************************************)
VARIABLES
    pc,                \* the statement to execute next
    valuation_input,   \* valuation_date as written on line 37
    valuation_date,    \* the global valuation_date
    maturity_date,     \* line 38
    face,              \* line 51
    market_value,      \* line 53
    evaluationDate,    \* Settings.instance().evaluationDate
    bondDiscountingTermStructure,
    fixedRateBond,
    z_spread,
    results,           \* the locals of getResults
    out,               \* the lines printed so far: << label, value >>
    error              \* the statement that raised, "" while none has

vars == << pc, valuation_input, valuation_date, maturity_date, face,
           market_value, evaluationDate, bondDiscountingTermStructure,
           fixedRateBond, z_spread, results, out, error >>

\* bounds of the inputs
HolidayWindow == 6
WeekWindow == 10
MaxYears == 2

\* line 37 is Date(19,7,2019); the modelled inputs are the days from then on
\* and the days around Easter 2019
ValuationInputs ==
    { DayOf(2019, 4, 17) + i : i \in 0 .. (HolidayWindow - 1) } \cup
    { DayOf(2019, 7, 19) + i : i \in 0 .. (WeekWindow - 1) }

\* line 38 is Date(30,7,2041); the modelled bonds mature on 30 July of the
\* years after 2019
Maturities == { DayOf(2019 + k, 7, 30) : k \in 1 .. MaxYears }

\* line 51 is face = 100
Faces == { 100 * Money, 0 - (100 * Money) }

\* value and accrued amount of the zero-spread bond a run with these inputs
\* builds on line 195
ZeroSpreadBond(vin, mat, f) ==
    LET v == AdvanceDays(vin, 2)
    IN  getBond(v, mat, f, getTermStructure(v), 0)

\* line 53 is market_value = 170.386; the modelled quotes are a grid and,
\* for the inputs at hand, the value of the zero-spread bond with and
\* without its accrued amount
MarketValues(vin, mat, f) ==
    LET v    == AdvanceDays(vin, 2)
        bond == ZeroSpreadBond(vin, mat, f)
    IN  { 0 - (105 * Money), 0, 95 * Money, 105 * Money, 115 * Money,
          BondNPV(bond, v), BondNPV(bond, v) - BondAccrued(bond, v) }

Init ==
    /\ pc = "advance"
    /\ valuation_input \in ValuationInputs
    /\ valuation_date = valuation_input
    /\ maturity_date \in Maturities
    /\ face \in Faces
    /\ market_value \in MarketValues(valuation_input, maturity_date, face)
    /\ evaluationDate = << >>
    /\ bondDiscountingTermStructure = << >>
    /\ fixedRateBond = << >>
    /\ z_spread = << >>
    /\ results = << >>
    /\ out = << >>
    /\ error = ""

\* line 83: valuation_date = calendar.advance(valuation_date,2,Days)
AdvanceValuationDate ==
    /\ pc = "advance"
    /\ valuation_date' = AdvanceDays(valuation_date, 2)
    /\ pc' = "setEvaluationDate"
    /\ UNCHANGED << valuation_input, maturity_date, face, market_value,
                    evaluationDate, bondDiscountingTermStructure,
                    fixedRateBond, z_spread, results, out, error >>

\* line 89
SetEvaluationDate ==
    /\ pc = "setEvaluationDate"
    /\ evaluationDate' = << valuation_date >>
    /\ pc' = "getTermStructure"
    /\ UNCHANGED << valuation_input, valuation_date, maturity_date, face,
                    market_value, bondDiscountingTermStructure,
                    fixedRateBond, z_spread, results, out, error >>

\* line 193
BuildCurve ==
    /\ pc = "getTermStructure"
    /\ bondDiscountingTermStructure' = << getTermStructure(valuation_date) >>
    /\ pc' = "getBond"
    /\ UNCHANGED << valuation_input, valuation_date, maturity_date, face,
                    market_value, evaluationDate, fixedRateBond, z_spread,
                    results, out, error >>

\* line 195: getBond with the default z_spread = 0
BuildBond ==
    /\ pc = "getBond"
    /\ fixedRateBond' = << getBond(valuation_date, maturity_date, face,
                                   bondDiscountingTermStructure[1], 0) >>
    /\ pc' = "zSpread"
    /\ UNCHANGED << valuation_input, valuation_date, maturity_date, face,
                    market_value, evaluationDate,
                    bondDiscountingTermStructure, z_spread, results, out,
                    error >>

\* Target without the accrued amount
TargetClean == market_value

\* the dirty price the solve of lines 200-208 aims at (line 202)
Target ==
    market_value + BondAccrued(fixedRateBond[1], evaluationDate[1])

\* lines 200-208: no handler surrounds the call, so a failed solve ends the
\* run with the library's error
SolveSpread ==
    /\ pc = "zSpread"
    /\ LET z == zSpread(fixedRateBond[1].cashflows, Target,
                        bondDiscountingTermStructure[1], evaluationDate[1],
                        compounding)
       IN  IF z = << >>
           THEN /\ pc' = "aborted"
                /\ error' = "zSpread"
                /\ UNCHANGED z_spread
           ELSE /\ pc' = "printSpread"
                /\ z_spread' = z
                /\ UNCHANGED error
    /\ UNCHANGED << valuation_input, valuation_date, maturity_date, face,
                    market_value, evaluationDate,
                    bondDiscountingTermStructure, fixedRateBond, results,
                    out >>

\* line 209
PrintSpread ==
    /\ pc = "printSpread"
    /\ out' = Append(out, << "Z_Spread: ", z_spread[1] * 10000 >>)
    /\ pc' = "rebuild"
    /\ UNCHANGED << valuation_input, valuation_date, maturity_date, face,
                    market_value, evaluationDate,
                    bondDiscountingTermStructure, fixedRateBond, z_spread,
                    results, error >>

\* RebuildBond without the z_spread argument: getBond's default applies
RebuildBondDefaultSpread ==
    /\ pc = "rebuild"
    /\ fixedRateBond' = << getBond(valuation_date, maturity_date, face,
                                   bondDiscountingTermStructure[1], 0) >>
    /\ pc' = "getResults"
    /\ UNCHANGED << valuation_input, valuation_date, maturity_date, face,
                    market_value, evaluationDate,
                    bondDiscountingTermStructure, z_spread, results, out,
                    error >>

\* line 210: getBond with the solved z_spread
RebuildBond ==
    /\ pc = "rebuild"
    /\ fixedRateBond' = << getBond(valuation_date, maturity_date, face,
                                   bondDiscountingTermStructure[1],
                                   z_spread[1]) >>
    /\ pc' = "getResults"
    /\ UNCHANGED << valuation_input, valuation_date, maturity_date, face,
                    market_value, evaluationDate,
                    bondDiscountingTermStructure, z_spread, results, out,
                    error >>

\* lines 168-178: the yield and the figures derived from it are not
\* computed in the model; the library call stands for its value
ComputeResults ==
    /\ pc = "getResults"
    /\ results' =
         << [ result_duration          |-> "BondFunctions.duration",
              result_convexity         |-> "BondFunctions.convexity",
              result_bps               |-> "BondFunctions.bps",
              result_basis_pt_value    |-> "BondFunctions.basisPointValue",
              result_npv               |-> BondNPV(fixedRateBond[1],
                                                   evaluationDate[1]),
              result_yield_value_bp    |-> "BondFunctions.yieldValueBasisPoint",
              result_yield_to_maturity |-> "bondYield" ] >>
    /\ pc' = "print"
    /\ UNCHANGED << valuation_input, valuation_date, maturity_date, face,
                    market_value, evaluationDate,
                    bondDiscountingTermStructure, fixedRateBond, z_spread,
                    out, error >>

\* FigureLines with the Bps and NPV statements exchanged
FigureLinesSwapped ==
    << << "Duration: ",          results[1].result_duration >>,
       << "Convexity: ",         results[1].result_convexity >>,
       << "NPV: ",               results[1].result_npv >>,
       << "Basis Pt Value: ",    results[1].result_basis_pt_value >>,
       << "Bps: ",               results[1].result_bps >>,
       << "Yield Value Bp: ",    results[1].result_yield_value_bp >>,
       << "Yield to Maturity: ", results[1].result_yield_to_maturity >> >>

\* lines 180-186, in the order of the statements
FigureLines ==
    << << "Duration: ",          results[1].result_duration >>,
       << "Convexity: ",         results[1].result_convexity >>,
       << "Bps: ",               results[1].result_bps >>,
       << "Basis Pt Value: ",    results[1].result_basis_pt_value >>,
       << "NPV: ",               results[1].result_npv >>,
       << "Yield Value Bp: ",    results[1].result_yield_value_bp >>,
       << "Yield to Maturity: ", results[1].result_yield_to_maturity >> >>

\* one of the print statements of lines 180-186: out holds the Z_Spread
\* line and the figure lines printed so far
PrintFigure ==
    /\ pc = "print"
    /\ Len(out) <= Len(FigureLines)
    /\ out' = Append(out, FigureLines[Len(out)])
    /\ pc' = IF Len(out) = Len(FigureLines) THEN "printAccrued" ELSE "print"
    /\ UNCHANGED << valuation_input, valuation_date, maturity_date, face,
                    market_value, evaluationDate,
                    bondDiscountingTermStructure, fixedRateBond, z_spread,
                    results, error >>

\* line 187: the accrued amount is computed inside the print statement
PrintAccrued ==
    /\ pc = "printAccrued"
    /\ out' = Append(out, << "Accrued: ",
                            BondAccrued(fixedRateBond[1], evaluationDate[1]) >>)
    /\ pc' = "done"
    /\ UNCHANGED << valuation_input, valuation_date, maturity_date, face,
                    market_value, evaluationDate,
                    bondDiscountingTermStructure, fixedRateBond, z_spread,
                    results, error >>

\* the statements that call into the pricing library
LibraryCalls == { "getTermStructure", "getBond", "zSpread", "rebuild",
                  "getResults", "printAccrued" }

\* a library call raises: the script has no try/except, so the exception
\* ends the run at that statement
LibraryRaises ==
    /\ pc \in LibraryCalls
    /\ pc' = "aborted"
    /\ error' = pc
    /\ UNCHANGED << valuation_input, valuation_date, maturity_date, face,
                    market_value, evaluationDate,
                    bondDiscountingTermStructure, fixedRateBond, z_spread,
                    results, out >>

Next ==
    \/ AdvanceValuationDate
    \/ SetEvaluationDate
    \/ BuildCurve
    \/ BuildBond
    \/ SolveSpread
    \/ PrintSpread
    \/ RebuildBond
    \/ ComputeResults
    \/ PrintFigure
    \/ PrintAccrued
    \/ LibraryRaises

Spec == Init /\ [][Next]_vars

(***************************************************************************)
(* Properties.                                                             *)
(***************************************************************************)
\* tolerance of a price (units of 1/Money) and of a spread (units of
\* 1/Scale) that the fixed-point arithmetic and the root search leave
Tol == 10
ZTol == 5

Solved == z_spread # << >>
Rebuilt == pc \in { "getResults", "print", "printAccrued", "done" }
    \/ error \in { "getResults", "printAccrued" }

\* the bond of line 195 for the inputs of this run, and its value, accrued
\* amount and the dirty price the solve aims at
InputBond == ZeroSpreadBond(valuation_input, maturity_date, face)
InputNPV == BondNPV(InputBond, AdvanceDays(valuation_input, 2))
InputAccrued == BondAccrued(InputBond, AdvanceDays(valuation_input, 2))
InputTarget == market_value + InputAccrued

\* a cash flow of the bond is paid on the valuation date itself
FlowOnValuationDate ==
    \E i \in DOMAIN InputBond.cashflows :
        InputBond.cashflows[i].date = AdvanceDays(valuation_input, 2)

\* C1: once getResults has priced the bond rebuilt with the solved spread,
\* its NPV equals the dirty price the solve aimed at (market_value plus the
\* accrued amount of the zero-spread bond) within the solver tolerance.
C1_RoundTrip ==
    results # << >> =>
        Abs(results[1].result_npv - InputTarget) <= Tol

\* C2 as claimed: when market_value equals the NPV of the zero-spread bond,
\* the solved spread is 0 within tolerance.
C2_ZeroSpreadAtNPV ==
    (Solved /\ market_value = InputNPV) => Abs(z_spread[1]) <= ZTol

\* C2 as amended: when market_value equals the NPV of the zero-spread bond
\* less its accrued amount (the clean value), and no cash flow is paid on
\* the valuation date, the solved spread is 0 within tolerance.
C2_ZeroSpreadAtCleanValue ==
    (Solved /\ market_value = InputNPV - InputAccrued
            /\ ~FlowOnValuationDate)
        => Abs(z_spread[1]) <= ZTol

C2_Witness ==
    /\ Solved
    /\ market_value = InputNPV - InputAccrued
    /\ ~FlowOnValuationDate
    /\ InputAccrued > 0
    /\ Abs(z_spread[1]) <= ZTol

\* the curve node of the 5-year quote (node 1 is the valuation date)
FiveYearNode ==
    1 + (CHOOSE i \in DOMAIN zcQuotes :
             zcQuotes[i].n = 5 /\ zcQuotes[i].unit = "Years")

CurveBuilt == bondDiscountingTermStructure # << >>
Curve == bondDiscountingTermStructure[1]

C4_RolledToBusinessDay ==
    pc # "advance" =>
        /\ valuation_date = Following(valuation_input)
        /\ IsBusinessDay(valuation_input) => valuation_date = valuation_input

\* C5: a failed solve is never replaced by a default: a run whose solve
\* failed is aborted at the solve with nothing rebuilt, computed or
\* printed, and the bond that getResults prices carries exactly the spread
\* the solve returned, which reproduces the target under the convention of
\* the solve.
C5_NoDefaultSpread ==
    /\ error = "zSpread" =>
           /\ pc = "aborted"
           /\ ~Solved
           /\ results = << >>
           /\ out = << >>
           /\ fixedRateBond[1].spread = 0
    /\ ~Solved => (~Rebuilt /\ results = << >> /\ out = << >>)
    /\ Rebuilt =>
           /\ Solved
           /\ fixedRateBond[1].spread = z_spread[1]
           /\ Abs(Objective(fixedRateBond[1].cashflows,
                            bondDiscountingTermStructure[1],
                            evaluationDate[1], compounding, InputTarget,
                            fixedRateBond[1].spread)) <= Tol

C5_Witness ==
    /\ error = "zSpread"
    /\ pc = "aborted"
    /\ zSpread(fixedRateBond[1].cashflows, Target,
               bondDiscountingTermStructure[1], evaluationDate[1],
               compounding) = << >>

\* C6: a run that aborts at any stage has printed no result line.
C6_NoPartialResult ==
    pc = "aborted" => out = << >>

\* C7: a run whose face or market value is not positive produces no spread
\* and no risk figure.
C7_InputValidation ==
    (face <= 0 \/ market_value <= 0) =>
        (~Solved /\ results = << >> /\ out = << >>)

\* the labels of the lines a complete run prints
Labels ==
    << "Z_Spread: ", "Duration: ", "Convexity: ", "Bps: ",
       "Basis Pt Value: ", "NPV: ", "Yield Value Bp: ",
       "Yield to Maturity: ", "Accrued: " >>

\* C8: a run that completes has printed Z_Spread (the solved spread times
\* 10000) and then the eight figures, each once, in the fixed order; the
\* Z_Spread line is out before the bond is rebuilt and before any figure
\* is computed, and the lines printed at any time are a prefix of that
\* order.
C8_OutputOrder ==
    /\ pc = "done" =>
           /\ [ i \in DOMAIN out |-> out[i][1] ] = Labels
           /\ out[1][2] = z_spread[1] * 10000
           /\ out[6][2] = results[1].result_npv
    /\ Len(out) <= Len(Labels)
    /\ \A i \in DOMAIN out : out[i][1] = Labels[i]
    /\ (pc = "rebuild" \/ Rebuilt \/ results # << >>) =>
           out[1] = << "Z_Spread: ", z_spread[1] * 10000 >>
    /\ pc = "rebuild" =>
           (Len(out) = 1 /\ fixedRateBond[1].spread = 0 /\ results = << >>)
    /\ pc = "getResults" => (Len(out) = 1 /\ results = << >>)

C8_Witness ==
    /\ pc = "done"
    /\ Len(out) = 9
    /\ z_spread[1] # 0

\* the coupon dates of the schedule: all its dates but the issue date
CouponDates(bond) ==
    { bond.schedule[i] : i \in 2 .. Len(bond.schedule) }

BondBuilt == fixedRateBond # << >>

\* C9 as claimed: the valuation date is on or before every coupon date of
\* the schedule, and the issue date is on or before the valuation date.
C9_NoCouponBeforeValuation ==
    BondBuilt =>
        /\ \A c \in CouponDates(fixedRateBond[1]) : valuation_date <= c
        /\ fixedRateBond[1].issue_date <= valuation_date

\* C9 as amended: the issue date is on or before the valuation date, every
\* coupon date is after the issue date, and at most one coupon date (the one
\* that ends the period running on the valuation date's anniversary) is
\* before the valuation date.
C9_AtMostOneCouponBeforeValuation ==
    BondBuilt =>
        /\ fixedRateBond[1].issue_date <= valuation_date
        /\ fixedRateBond[1].issue_date >= AddYears(valuation_date, 0 - 1)
        /\ fixedRateBond[1].schedule[1] = fixedRateBond[1].issue_date
        /\ \A c \in CouponDates(fixedRateBond[1]) :
               c > fixedRateBond[1].issue_date
        /\ Cardinality({ c \in CouponDates(fixedRateBond[1]) :
                             c < valuation_date }) <= 1
        /\ maturity_date \in CouponDates(fixedRateBond[1])

C9_Witness ==
    /\ BondBuilt
    /\ \E c \in CouponDates(fixedRateBond[1]) : c < valuation_date
    /\ \E c \in CouponDates(fixedRateBond[1]) : c > valuation_date

\* C10: the convention under which the spread is solved (line 205) is the
\* convention under which the rebuilt bond's curve applies it (line 147).
C10_SameConvention ==
    Rebuilt => fixedRateBond[1].compounding = compounding
====
